---- MODULE Spec2Model ----
(***************************************************************************)
(* Telemetry ingestion engine of the IoT dashboard (app/serial_reader.py,  *)
(* app/data_store.py, app/routes.py, app/config.py).                       *)
(*                                                                         *)
(* Threads: one "caller" context (the main thread / a request handler)     *)
(* which runs start_reader, stop_reader, update_config and                 *)
(* get_current_data one after the other, and one daemon thread per         *)
(* DataReader instance running DataReader.run_reader.  Every action is one *)
(* step of one thread; the other threads may run between any two steps.    *)
(*                                                                         *)
(* Time is the integer variable now, counted in 1/UnitsPerSecond seconds.  *)
(* A sleep of d returns at any time >= its start + d.                      *)
(***************************************************************************)
EXTENDS Integers, Sequences, FiniteSets, TLC

\* ------------------------------------------------------------ bounds
UnitsPerSecond == 2          \* time resolution of the model
MaxSeconds == 3              \* horizon of Spec, in seconds
MaxTickSeconds == 8          \* horizon of SpecTick, in seconds
MaxReaders == 2              \* DataReader objects alive at the same time
MaxCalls == 2                \* operations the caller starts in Spec
MaxConfigCalls == 1          \* requests in SpecConfig
MaxAppends == 103            \* successful ticks in SpecHist
MaxVaried == 2               \* ticks of SpecHist whose block is arbitrary
MaxBlockLines == 3       \* lines of a decoded block after its GPS line
MaxErrorSeconds == 4     \* horizon of SpecError
MaxLoopErrors == 5       \* exceptions the handler of the loop catches in SpecError
MaxDriftSeconds == 4     \* horizon of SpecDrift
MaxChunkLines == 2       \* lines one read of the port returns in SpecFrame
MaxBufferLines == 4      \* lines of data_buffer in SpecFrame
MaxCoordTicks == 1       \* ticks of SpecCoords
MaxStopSeconds == 3      \* calls of SpecStop come before this time
MaxAlignTicks == 3       \* successful ticks in SpecAlign

\* ------------------------------------------------- program constants
MOCK_UPDATE_INTERVAL == 1    \* config.py:16, seconds
max_failures == 5            \* serial_reader.py:448
ReadWindowSeconds == 5       \* serial_reader.py:301
ConnectSleepSeconds == 2     \* serial_reader.py:294
StopSleepSeconds == 1        \* serial_reader.py:553
HistoryMaxLen == 100         \* data_store.py:25  deque(maxlen=100)
TimeoutMax == 10             \* routes.py:126
BufferCap == 2000            \* serial_reader.py:338  len(self.data_buffer) > 2000
BufferKeep == 1000           \* serial_reader.py:339  self.data_buffer[-1000:]

Interval == MOCK_UPDATE_INTERVAL * UnitsPerSecond
ReadWindow == ReadWindowSeconds * UnitsPerSecond
ConnectSleep == ConnectSleepSeconds * UnitsPerSecond
StopSleep == StopSleepSeconds * UnitsPerSecond
StartSleep == UnitsPerSecond \div 2            \* serial_reader.py:559  sleep(0.5)
MaxTime == MaxSeconds * UnitsPerSecond
MaxTickTime == MaxTickSeconds * UnitsPerSecond
MaxErrorTime == MaxErrorSeconds * UnitsPerSecond
MaxDriftTime == MaxDriftSeconds * UnitsPerSecond
MaxStopTime == MaxStopSeconds * UnitsPerSecond

Readers == 1..MaxReaders
None == <<>>                 \* Python's None

\* ------------------------------------------------------------ values
\* A Python float/int is <<"num", n>>; float("nan") is <<"nan">>.
Num(n) == <<"num", n>>
NaN == <<"nan">>
Str(s) == <<"str", s>>
IsNum(x) == x[1] = "num"

\* An altitude is <<"m", n>> (metres read from the GPS line) or
\* <<"baro", p, t>>, the value of the barometric formula for pressure p and
\* temperature t.
Metres(n) == <<"m", n>>

\* calculate_altitude_from_pressure: the formula for a positive pressure;
\* a pressure <= 0 raises inside the try and the function returns 0.0.
calculate_altitude_from_pressure(pressure_mb, temperature_c) ==
    IF pressure_mb <= 0 THEN Metres(0) ELSE <<"baro", pressure_mb, temperature_c>>

\* convert_gps_to_decimal: DDMM.MMMM -> degrees + minutes/60.  The result is
\* kept exact as a number of arc minutes (60 * decimal degrees).
convert_gps_to_decimal(coord) ==
    IF coord = 0 THEN 0 ELSE (coord \div 100) * 60 + (coord - (coord \div 100) * 100)

\* get_decimal_coordinates (data_store.py): negates the longitude only when
\* the raw value exceeds 10000.
get_decimal_coordinates(ld) ==
    LET lat_decimal == convert_gps_to_decimal(ld["lat"])
        lon_decimal == convert_gps_to_decimal(ld["lon"])
    IN  <<lat_decimal, IF ld["lon"] > 10000 THEN -lon_decimal ELSE lon_decimal>>

\* ------------------------------------------------------------ strings
\* A port name is the sequence of its characters.
COM7 == <<"C", "O", "M", "7">>
COM3 == <<"C", "O", "M", "3">>
LowerLetters == {"c", "o", "m", "d", "e", "v", "t", "y", "s"}
UpperOf == [c \in LowerLetters |->
              CASE c = "c" -> "C" [] c = "o" -> "O" [] c = "m" -> "M" [] c = "d" -> "D"
                [] c = "e" -> "E" [] c = "v" -> "V" [] c = "t" -> "T" [] c = "y" -> "Y"
                [] c = "s" -> "S"]

\* str.upper
upper(str) == [i \in 1..Len(str) |-> IF str[i] \in LowerLetters THEN UpperOf[str[i]] ELSE str[i]]

\* str.strip
RECURSIVE lstrip(_)
lstrip(str) == IF str # <<>> /\ Head(str) = " " THEN lstrip(Tail(str)) ELSE str
RECURSIVE rstrip(_)
rstrip(str) ==
    IF str # <<>> /\ str[Len(str)] = " " THEN rstrip(SubSeq(str, 1, Len(str) - 1)) ELSE str
strip(str) == rstrip(lstrip(str))

\* str.startswith
startswith(str, prefix) ==
    Len(str) >= Len(prefix) /\ SubSeq(str, 1, Len(prefix)) = prefix

\* int(x) and float(x) of a JSON value: [ok, v], ok false when ValueError is
\* raised.  float("nan") is a float.
py_int(x) == IF IsNum(x) THEN [ok |-> TRUE, v |-> x[2]] ELSE [ok |-> FALSE, v |-> 0]
py_float(x) ==
    IF IsNum(x) THEN [ok |-> TRUE, v |-> x]
    ELSE IF x = Str("nan") THEN [ok |-> TRUE, v |-> NaN]
    ELSE [ok |-> FALSE, v |-> NaN]

\* Comparisons of a float with a number: every comparison with NaN is false.
FloatLe(x, n) == IsNum(x) /\ x[2] <= n
FloatGt(x, n) == IsNum(x) /\ x[2] > n

\* ------------------------------------------------------- sample store
\* latest_data of data_store.py.  The sixteen keys are represented by the
\* seven below (the other nine are written exactly like ms5611_temp or
\* heating_status); "alt_calculated" is not a key of the initial dict.
InitialLatestData ==
    [lat |-> 3325, lon |-> 11155, alt |-> Metres(378), satellites |-> 9,
     ms5611_temp |-> 25, pressure |-> 970, heating_status |-> "ON"]

\* d[k] = v for a key that may be new (Python's d[k] = v).
SetKey(d, k, v) == [x \in (DOMAIN d) \cup {k} |-> IF x = k THEN v ELSE d[x]]

\* isinstance(value, (int, float)): true of numbers and of bool.
IsNumeric(k) == k # "heating_status"

Channels == {"time", "lat", "lon", "alt", "satellites", "ms5611_temp",
             "pressure", "alt_calculated"}

\* deque(maxlen=HistoryMaxLen).append(v)
DequeAppend_NoEvict(q, v) == Append(q, v)
DequeAppend(q, v) ==
    IF Len(q) >= HistoryMaxLen THEN Append(Tail(q), v) ELSE Append(q, v)

\* DataReader.update_history: history is a defaultdict, a channel that was
\* never appended to is the empty deque.
update_history(h, ld, ts) ==
    [c \in Channels |->
        IF c = "time" THEN DequeAppend(h[c], ts)
        ELSE IF c \in DOMAIN ld /\ IsNumeric(c) THEN DequeAppend(h[c], ld[c])
        ELSE h[c]]

\* Every value update_history gives to a channel, in order, nothing dropped.
Recorded(a, ld, ts) ==
    [c \in Channels |->
        IF c = "time" THEN Append(a[c], ts)
        ELSE IF c \in DOMAIN ld /\ IsNumeric(c) THEN Append(a[c], ld[c])
        ELSE a[c]]

\* get_history (routes.py): every deque as a list.
get_history(h) == [c \in {k \in Channels : h[k] # <<>>} |-> h[c]]

\* update_system_status (data_store.py)
update_system_status(st, source, error, t) ==
    [last_update |-> t, data_source |-> source,
     connection_status |-> IF error THEN "error" ELSE "connected",
     error_count |-> IF error THEN st.error_count + 1 ELSE st.error_count]

\* One row of log_data_to_csv: timestamp, decimal and raw coordinates,
\* altitude and flag.  The longitude is always negated here.
CsvRow(ld, ts) ==
    [timestamp |-> ts,
     lat_decimal |-> convert_gps_to_decimal(ld["lat"]),
     lon_decimal |-> -convert_gps_to_decimal(ld["lon"]),
     lat_raw |-> ld["lat"], lon_raw |-> ld["lon"], alt |-> ld["alt"],
     alt_calculated |-> IF "alt_calculated" \in DOMAIN ld THEN ld["alt_calculated"] ELSE FALSE]

\* The columns of a row of log_data_to_csv, in the order of its writerow list.
RowColumns ==
    <<"timestamp", "lat_decimal", "lon_decimal", "lat_raw", "lon_raw", "alt",
      "alt_calculated", "satellites", "utc_time", "rtc_date", "rtc_time",
      "ms5611_temp", "pressure", "ds18b20_temp", "scd30_temp", "rh", "co2",
      "thermal_temp", "heating_status", "target_range">>

\* The header rows the three startup paths write: DataReader.__init__,
\* setup_csv_file of run.py, main of debug_run.py.
ReaderHeader ==
    <<"timestamp", "lat_decimal", "lon_decimal", "lat_raw", "lon_raw", "alt",
      "alt_calculated", "satellites", "utc_time", "rtc_date", "rtc_time",
      "ms5611_temp", "pressure", "ds18b20_temp", "scd30_temp", "rh", "co2",
      "thermal_temp", "heating_status", "target_range">>
RunHeader ==
    <<"timestamp", "lat_decimal", "lon_decimal", "lat_raw", "lon_raw", "alt",
      "satellites", "utc_time", "rtc_date", "rtc_time",
      "ms5611_temp", "pressure", "ds18b20_temp", "scd30_temp", "rh", "co2",
      "thermal_temp", "heating_status", "target_range">>
DebugHeader ==
    <<"timestamp", "lat", "lon", "alt", "ms5611_temp", "ds18b20_temp", "scd30_temp",
      "rh", "co2">>

\* The file config.CSV_FILE: absent, or a header row and data rows.
NoFile == [exists |-> FALSE, header |-> <<>>, rows |-> <<>>]

\* run.py, setup_csv_file: open(..., "w") if os.path.exists says no.
setup_csv_file(f) ==
    IF f.exists THEN f ELSE [exists |-> TRUE, header |-> RunHeader, rows |-> <<>>]

\* debug_run.py, lines 25-28: the same test, another header.
debug_csv_file(f) ==
    IF f.exists THEN f ELSE [exists |-> TRUE, header |-> DebugHeader, rows |-> <<>>]

\* The payload of emit_data.
EmitPayload(ld, ts, use_mock, t, r) ==
    [data |-> ld,
     lat_decimal |-> convert_gps_to_decimal(ld["lat"]),
     lon_decimal |-> -convert_gps_to_decimal(ld["lon"]),
     timestamp |-> ts,
     source |-> IF use_mock THEN "mock" ELSE "device",
     at |-> t, by |-> r]

\* ------------------------------------------------ telemetry decoding
\* A line of a block, after the prefix dispatch and the regular expression
\* of parse_telemetry_block:
\*   <<"GPS_NOFIX">>          GPS line containing "No Fix"
\*   <<"GPS", lat, lon, alt>> GPS line matching gps_pattern
\*   <<"GPS_NOMATCH">>        GPS line that does not match gps_pattern
\*   <<"Sats", n>>, <<"MS5611", t>>, <<"Pressure", p>>, <<"Heating", s>>
\*   <<"BadNum">>             numeric line whose text matches [\d.-]+ but
\*                            is no number: float() raises ValueError
\*   <<"Other">>              empty line or no known key
\* The state of the decoding is [data, updated, raised].

\* Lines 157-164: a GPS line that matches gps_pattern.
ParseGps_KeepFlag(st, line) ==
    [st EXCEPT !.data = [st.data EXCEPT !["lat"] = line[2], !["lon"] = line[3],
                                        !["alt"] = Metres(line[4])],
               !.updated = TRUE]
ParseGps(st, line) ==
    [st EXCEPT !.data = SetKey([st.data EXCEPT !["lat"] = line[2], !["lon"] = line[3],
                                               !["alt"] = Metres(line[4])],
                               "alt_calculated", FALSE),
               !.updated = TRUE]

ParseLine(st, line) ==
    LET d == st.data
        k == line[1]
    IN  IF st.raised THEN st
        ELSE IF k = "GPS_NOFIX" THEN
            [st EXCEPT !.data = [d EXCEPT !["lat"] = 0, !["lon"] = 0,
                                          !["alt"] = Metres(0), !["satellites"] = 0],
                       !.updated = TRUE]
        ELSE IF k = "GPS" THEN ParseGps(st, line)
        ELSE IF k = "Sats" THEN
            [st EXCEPT !.data = [d EXCEPT !["satellites"] = line[2]], !.updated = TRUE]
        ELSE IF k = "MS5611" THEN
            [st EXCEPT !.data = [d EXCEPT !["ms5611_temp"] = line[2]], !.updated = TRUE]
        ELSE IF k = "Pressure" THEN
            [st EXCEPT !.data = [d EXCEPT !["pressure"] = line[2]], !.updated = TRUE]
        ELSE IF k = "Heating" THEN
            [st EXCEPT !.data = [d EXCEPT !["heating_status"] = line[2]], !.updated = TRUE]
        ELSE IF k = "BadNum" THEN [st EXCEPT !.raised = TRUE]
        ELSE st

\* Lines 259-278: the altitude is recomputed from the pressure when the
\* block changed something and lat or alt is 0; an exception raised by a
\* line makes the function return False, whatever was written before it.
ParseFinish_NoRecompute(st) ==
    IF st.raised THEN [st EXCEPT !.updated = FALSE] ELSE st
ParseFinish(st) ==
    IF st.raised THEN [st EXCEPT !.updated = FALSE]
    ELSE IF st.updated /\ (st.data["lat"] = 0 \/ st.data["alt"] = Metres(0)) THEN
        [st EXCEPT !.data = SetKey([st.data EXCEPT !["alt"] =
                                       calculate_altitude_from_pressure(
                                           st.data["pressure"], st.data["ms5611_temp"])],
                                   "alt_calculated", TRUE)]
    ELSE st

RECURSIVE ParseLines(_, _)
ParseLines(st, lines) ==
    IF lines = <<>> THEN st ELSE ParseLines(ParseLine(st, Head(lines)), Tail(lines))

\* parse_telemetry_block as a function: the new latest_data and the result.
parse_telemetry_block(ld, lines) ==
    ParseFinish(ParseLines([data |-> ld, updated |-> FALSE, raised |-> FALSE], lines))

\* The blocks the device sends in the model.
FixBlock == << <<"GPS", 3324, 11156, 400>>, <<"MS5611", 26>>, <<"Pressure", 971>> >>
NoFixBlock == << <<"GPS_NOFIX">>, <<"Pressure", 969>> >>
JunkBlock == << <<"GPS_NOMATCH">>, <<"Other">> >>
DeviceBlocks == {FixBlock, NoFixBlock, JunkBlock}

\* ------------------------------------------------------ synthetic data
\* generate_realistic_mock_data draws noise with random.uniform; a draw is
\* <<ms5611_temp, pressure>>.
MockDraws == {<<27, 966>>, <<28, 970>>}

\* The writes of generate_realistic_mock_data in source order, in five
\* groups; GenWrite(ld, draw, i) is latest_data after group i.
GenPcs == <<"gen_gps", "gen_temp", "gen_pressure", "gen_alt", "gen_heat">>
GenWrite(ld, draw, i) ==
    IF i = 1 THEN [ld EXCEPT !["lat"] = 0, !["lon"] = 0, !["satellites"] = 0]
    ELSE IF i = 2 THEN [ld EXCEPT !["ms5611_temp"] = draw[1]]
    ELSE IF i = 3 THEN [ld EXCEPT !["pressure"] = draw[2]]
    ELSE IF i = 4 THEN
        SetKey([ld EXCEPT !["alt"] = calculate_altitude_from_pressure(
                                         ld["pressure"], ld["ms5611_temp"])],
               "alt_calculated", TRUE)
    ELSE [ld EXCEPT !["heating_status"] = "OFF"]

RECURSIVE GenFrom(_, _, _)
GenFrom(ld, draw, i) ==
    IF i > Len(GenPcs) THEN ld ELSE GenFrom(GenWrite(ld, draw, i), draw, i + 1)

\* generate_realistic_mock_data as a function of the store and the draw.
generate_realistic_mock_data(ld, draw) == GenFrom(ld, draw, 1)

GenIndex(p) == CHOOSE i \in 1..Len(GenPcs) : GenPcs[i] = p

\* ------------------------------------------------------------- state
VARIABLES
    now,              \* time.time()
    config,           \* app/config.py: USE_MOCK, SERIAL_PORT, BAUD_RATE, TIMEOUT
    latest_data,      \* data_store.latest_data
    history,          \* data_store.history
    system_status,    \* data_store.system_status
    csv_file,         \* the file config.CSV_FILE
    emitted,          \* the "new_data" events given to socketio.emit
    reader_instance,  \* serial_reader.reader_instance: a reader or None
    readers,          \* the DataReader objects and their run_reader threads
    caller,           \* the calling context: its position and locals
    appended          \* every value given to a history channel, in order

vars == <<now, config, latest_data, history, system_status, csv_file, emitted,
          reader_instance, readers, caller, appended>>

\* A DataReader object (running, serial_conn), the position of its thread
\* (pc) and the locals of run_reader / read_serial_data.  trace lists the
\* stages the current tick has run, tick_pre is latest_data as the current
\* update found it, fallback says that the current tick has taken lines
\* 477-482, stop_returned says that stop() was called on the
\* object and has returned, decoded records the last call of
\* parse_telemetry_block as a function: the block, the store (pre) and
\* alt_calculated before the
\* call (<<>> when the key was missing) and the value returned, failed_reads
\* counts the failed device reads in a row since the last successful read or
\* the last fallback, threshold_hits counts the times the handler of lines
\* 510-519 found the failure counter at max_failures or above, loop_errors
\* the exceptions that handler has caught; first_deadline is the deadline
\* line 449 sets, ticks the ticks that have reached lines 494-505, short
\* says that the processing time of each of them was less than the interval,
\* on_time that each of them reached line 494 less than an interval after
\* its deadline; data_buffer is the list of the lines of self.data_buffer,
\* framed records the last search for a block: the buffer searched and the
\* block cut out of it (<<>> if none).
NoReader ==
    [pc |-> "none", running |-> FALSE, serial_conn |-> None,
     consecutive_failures |-> 0, next_update_time |-> 0, timestamp |-> 0,
     data_updated |-> FALSE, wake |-> 0, read_start |-> 0, block |-> <<>>,
     draw |-> <<>>, trace |-> <<>>, tick_pre |-> <<>>, fallback |-> FALSE,
     stop_returned |-> FALSE, decoded |-> <<>>, failed_reads |-> 0,
     threshold_hits |-> 0, loop_errors |-> 0, first_deadline |-> 0, ticks |-> 0,
     on_time |-> TRUE, short |-> TRUE, data_buffer |-> <<>>, framed |-> <<>>]

\* The locals of a thread that has left run_reader.
Exited(rd) ==
    [NoReader EXCEPT !.pc = "done", !.running = rd.running,
                     !.serial_conn = rd.serial_conn, !.stop_returned = rd.stop_returned]

NoCaller ==
    [pc |-> "idle", ret |-> "idle", chain |-> FALSE, req |-> <<>>, wake |-> 0,
     resp |-> "none", cfg_before |-> <<>>, restarted |-> FALSE, msgs |-> FALSE,
     coords |-> <<>>, cur |-> <<>>, cur_pre |-> <<>>, cur_post |-> <<>>, ncalls |-> 0]

EmptyHistory == [c \in Channels |-> <<>>]

\* The state after the modules are imported (config.py, data_store.py,
\* serial_reader.py line 543) and before anything is started.
Init ==
    /\ now = 0
    /\ config = [USE_MOCK |-> FALSE, SERIAL_PORT |-> COM7, BAUD_RATE |-> 9600,
                 TIMEOUT |-> Num(1)]
    /\ latest_data = InitialLatestData
    /\ history = EmptyHistory
    /\ system_status = [last_update |-> 0, data_source |-> "mock",
                        connection_status |-> "connected", error_count |-> 0]
    /\ csv_file = NoFile
    /\ emitted = <<>>
    /\ reader_instance = None
    /\ readers = [r \in Readers |-> NoReader]
    /\ caller = NoCaller
    /\ appended = EmptyHistory

\* ------------------------------------------------- DataReader.run_reader
LoopPcs == {"poll", "gen_gps", "gen_temp", "gen_pressure", "gen_alt", "gen_heat",
            "read_open", "read_sleep", "read_wait", "parse", "after_read",
            "hist", "log", "emit", "status", "sched"}

OtherUnchanged == UNCHANGED <<config, reader_instance, caller, appended>>
StoreUnchanged == UNCHANGED <<latest_data, history, system_status, csv_file, emitted>>

\* Lines 446-449: the thread enters run_reader.
RunReaderStart(r) ==
    /\ readers[r].pc = "init"
    /\ readers' = [readers EXCEPT ![r].pc = "poll",
                                  ![r].consecutive_failures = 0,
                                  ![r].first_deadline = now + Interval,
                                  ![r].next_update_time = now + Interval]
    /\ UNCHANGED now /\ StoreUnchanged /\ OtherUnchanged

\* Line 451: the loop ends when running is false.
LoopExit_Spin(r) ==
    /\ readers[r].pc = "poll"
    /\ ~readers[r].running
    /\ UNCHANGED vars
LoopExit(r) ==
    /\ readers[r].pc = "poll"
    /\ ~readers[r].running
    /\ readers' = [readers EXCEPT ![r] = Exited(readers[r])]
    /\ UNCHANGED now /\ StoreUnchanged /\ OtherUnchanged

\* Lines 453-469: a poll that finds the deadline reached starts a tick (a poll
\* that does not sleeps 10 ms and polls again).
Poll(r) ==
    /\ readers[r].pc = "poll"
    /\ readers[r].running
    /\ now >= readers[r].next_update_time
    /\ \E d \in MockDraws :
         readers' = [readers EXCEPT
            ![r].timestamp = now,
            ![r].data_updated = FALSE,
            ![r].trace = <<>>,
            ![r].fallback = FALSE,
            ![r].tick_pre = IF config.USE_MOCK THEN latest_data ELSE <<>>,
            ![r].draw = IF config.USE_MOCK THEN d ELSE <<>>,
            ![r].pc = IF config.USE_MOCK THEN "gen_gps" ELSE "read_open"]
    /\ UNCHANGED now /\ StoreUnchanged /\ OtherUnchanged

\* generate_realistic_mock_data, one group of writes per step; after the last
\* one lines 466-467 (or 481-482): data_updated = True, consecutive_failures = 0.
GenStep_KeepCount(r) ==
    LET rd == readers[r]
        i == GenIndex(rd.pc)
    IN  /\ rd.pc \in {GenPcs[j] : j \in 1..Len(GenPcs)}
        /\ latest_data' = GenWrite(latest_data, rd.draw, i)
        /\ readers' = IF i < Len(GenPcs)
                      THEN [readers EXCEPT ![r].pc = GenPcs[i + 1]]
                      ELSE [readers EXCEPT ![r].pc = "hist",
                                           ![r].data_updated = TRUE,
                                           ![r].failed_reads = 0,
                                           ![r].draw = <<>>, ![r].tick_pre = <<>>]
        /\ UNCHANGED <<now, history, system_status, csv_file, emitted>>
        /\ OtherUnchanged

GenStep(r) ==
    LET rd == readers[r]
        i == GenIndex(rd.pc)
    IN  /\ rd.pc \in {GenPcs[j] : j \in 1..Len(GenPcs)}
        /\ latest_data' = GenWrite(latest_data, rd.draw, i)
        /\ readers' = IF i < Len(GenPcs)
                      THEN [readers EXCEPT ![r].pc = GenPcs[i + 1]]
                      ELSE [readers EXCEPT ![r].pc = "hist",
                                           ![r].data_updated = TRUE,
                                           ![r].consecutive_failures = 0,
                                           ![r].failed_reads = 0,
                                           ![r].draw = <<>>, ![r].tick_pre = <<>>]
        /\ UNCHANGED <<now, history, system_status, csv_file, emitted>>
        /\ OtherUnchanged

\* ------------------------------------------- DataReader.read_serial_data
\* Lines 350-359: the SerialException handler closes and forgets the
\* connection, counts the error in system_status and returns False.
SerialExceptionHandler(r) ==
    /\ readers' = [readers EXCEPT ![r].serial_conn = None,
                                  ![r].data_updated = FALSE,
                                  ![r].trace = Append(@, "status_error"),
                                  ![r].pc = "after_read"]
    /\ system_status' = update_system_status(system_status, "device", TRUE, now)

\* Line 283 with a connection already open: straight to the read window.
ReadConnected(r) ==
    /\ readers[r].pc = "read_open"
    /\ readers[r].serial_conn # None
    /\ readers' = [readers EXCEPT ![r].pc = "read_wait", ![r].read_start = now]
    /\ UNCHANGED now /\ StoreUnchanged /\ OtherUnchanged

\* Lines 283-295: serial.Serial(...) opens the port with the configuration of
\* this moment, then time.sleep(2).
ReadOpenOk(r) ==
    /\ readers[r].pc = "read_open"
    /\ readers[r].serial_conn = None
    /\ readers' = [readers EXCEPT
          ![r].serial_conn = <<config.SERIAL_PORT, config.BAUD_RATE, config.TIMEOUT>>,
          ![r].wake = now + ConnectSleep,
          ![r].pc = "read_sleep"]
    /\ UNCHANGED now /\ StoreUnchanged /\ OtherUnchanged

\* Lines 289, 350-359: serial.Serial(...) raises SerialException.
ReadOpenFail(r) ==
    /\ readers[r].pc = "read_open"
    /\ readers[r].serial_conn = None
    /\ SerialExceptionHandler(r)
    /\ UNCHANGED <<now, latest_data, history, csv_file, emitted>>
    /\ OtherUnchanged

\* Lines 294-299: the sleep after connecting ends, the read window starts.
ReadSleepDone(r) ==
    /\ readers[r].pc = "read_sleep"
    /\ now >= readers[r].wake
    /\ readers' = [readers EXCEPT ![r].pc = "read_wait", ![r].read_start = now,
                                  ![r].wake = 0]
    /\ UNCHANGED now /\ StoreUnchanged /\ OtherUnchanged

InWindow(r) == now - readers[r].read_start < ReadWindow

\* Lines 301-335: within the window a complete block is in the buffer and is
\* handed to parse_telemetry_block.
ReadBlock(r) ==
    /\ readers[r].pc = "read_wait"
    /\ InWindow(r)
    /\ readers[r].serial_conn # None
    /\ \E b \in DeviceBlocks :
         readers' = [readers EXCEPT ![r].pc = "parse", ![r].block = b,
                                    ![r].data_updated = FALSE,
                                    ![r].tick_pre = latest_data,
                                    ![r].read_start = 0]
    /\ UNCHANGED now /\ StoreUnchanged /\ OtherUnchanged

\* Lines 301, 348: the window ends with no block decoded.
ReadTimeout(r) ==
    /\ readers[r].pc = "read_wait"
    /\ ~InWindow(r)
    /\ readers' = [readers EXCEPT ![r].pc = "after_read", ![r].data_updated = FALSE,
                                  ![r].read_start = 0]
    /\ UNCHANGED now /\ StoreUnchanged /\ OtherUnchanged

\* Lines 302-304, 350-359: in_waiting / read raise SerialException.
ReadSerialError(r) ==
    /\ readers[r].pc = "read_wait"
    /\ InWindow(r)
    /\ readers[r].serial_conn # None
    /\ SerialExceptionHandler(r)
    /\ UNCHANGED <<now, latest_data, history, csv_file, emitted>>
    /\ OtherUnchanged

\* Lines 302-304, 360-362: a device operation on the open connection raises
\* an exception that is no SerialException (on POSIX in_waiting is an ioctl
\* whose OSError is passed on when the device has gone); the generic
\* handler prints and returns False.
ReadOtherError(r) ==
    /\ readers[r].pc = "read_wait"
    /\ InWindow(r)
    /\ readers[r].serial_conn # None
    /\ readers' = [readers EXCEPT ![r].pc = "after_read", ![r].data_updated = FALSE,
                                  ![r].read_start = 0]
    /\ UNCHANGED now /\ StoreUnchanged /\ OtherUnchanged

\* Lines 302, 360-362: stop() has set serial_conn to None in the meantime;
\* self.serial_conn.in_waiting raises AttributeError, caught by the generic
\* handler.
ReadNoConnection(r) ==
    /\ readers[r].pc = "read_wait"
    /\ InWindow(r)
    /\ readers[r].serial_conn = None
    /\ readers' = [readers EXCEPT ![r].pc = "after_read", ![r].data_updated = FALSE,
                                  ![r].read_start = 0]
    /\ UNCHANGED now /\ StoreUnchanged /\ OtherUnchanged

\* parse_telemetry_block, one line per step.
ParseStep(r) ==
    LET rd == readers[r]
        st == ParseLine([data |-> latest_data, updated |-> rd.data_updated,
                         raised |-> FALSE], Head(rd.block))
    IN  /\ rd.pc = "parse"
        /\ rd.block # <<>>
        /\ latest_data' = st.data
        /\ readers' = IF st.raised
                      THEN [readers EXCEPT ![r].pc = "after_read", ![r].block = <<>>,
                                           ![r].data_updated = FALSE,
                                           ![r].tick_pre = <<>>]
                      ELSE [readers EXCEPT ![r].block = Tail(rd.block),
                                           ![r].data_updated = st.updated]
        /\ UNCHANGED <<now, history, system_status, csv_file, emitted>>
        /\ OtherUnchanged

\* Lines 259-274 once every line is decoded.
ParseEnd(r) ==
    LET rd == readers[r]
        st == ParseFinish([data |-> latest_data, updated |-> rd.data_updated,
                           raised |-> FALSE])
    IN  /\ rd.pc = "parse"
        /\ rd.block = <<>>
        /\ latest_data' = st.data
        /\ readers' = [readers EXCEPT ![r].pc = "after_read", ![r].tick_pre = <<>>]
        /\ UNCHANGED <<now, history, system_status, csv_file, emitted>>
        /\ OtherUnchanged

\* ------------------------------------------ run_reader, after the source
\* Lines 471-482: the failure counter and the fallback to synthetic data.
AfterRead_Ungated(r) ==
    LET rd == readers[r]
    IN  /\ rd.pc = "after_read"
        /\ IF rd.data_updated
           THEN readers' = [readers EXCEPT ![r].pc = "hist",
                                           ![r].consecutive_failures = 0,
                                           ![r].failed_reads = 0]
           ELSE IF rd.consecutive_failures + 1 >= max_failures
           THEN \E d \in MockDraws :
                  readers' = [readers EXCEPT
                      ![r].consecutive_failures = rd.consecutive_failures + 1,
                      ![r].failed_reads = rd.failed_reads + 1,
                      ![r].pc = "gen_gps", ![r].draw = d, ![r].tick_pre = latest_data,
                      ![r].fallback = TRUE]
           ELSE readers' = [readers EXCEPT
                      ![r].consecutive_failures = rd.consecutive_failures + 1,
                      ![r].failed_reads = rd.failed_reads + 1,
                      ![r].pc = "hist"]
        /\ UNCHANGED now /\ StoreUnchanged /\ OtherUnchanged

AfterRead(r) ==
    LET rd == readers[r]
    IN  /\ rd.pc = "after_read"
        /\ IF rd.data_updated
           THEN readers' = [readers EXCEPT ![r].pc = "hist",
                                           ![r].consecutive_failures = 0,
                                           ![r].failed_reads = 0]
           ELSE IF rd.consecutive_failures + 1 >= max_failures
           THEN \E d \in MockDraws :
                  readers' = [readers EXCEPT
                      ![r].consecutive_failures = rd.consecutive_failures + 1,
                      ![r].failed_reads = rd.failed_reads + 1,
                      ![r].pc = "gen_gps", ![r].draw = d, ![r].tick_pre = latest_data,
                      ![r].fallback = TRUE]
           ELSE readers' = [readers EXCEPT
                      ![r].consecutive_failures = rd.consecutive_failures + 1,
                      ![r].failed_reads = rd.failed_reads + 1,
                      ![r].pc = "sched"]
        /\ UNCHANGED now /\ StoreUnchanged /\ OtherUnchanged

\* Line 486: update_history(timestamp).
Hist(r) ==
    /\ readers[r].pc = "hist"
    /\ history' = update_history(history, latest_data, readers[r].timestamp)
    /\ appended' = Recorded(appended, latest_data, readers[r].timestamp)
    /\ readers' = [readers EXCEPT ![r].pc = "log", ![r].trace = Append(@, "history")]
    /\ UNCHANGED <<now, latest_data, system_status, csv_file, emitted>>
    /\ UNCHANGED <<config, reader_instance, caller>>

\* Line 487: log_data_to_csv(timestamp); open(..., "a") creates a missing file.
log_data_to_csv(f, ld, ts) ==
    [f EXCEPT !.exists = TRUE, !.rows = Append(@, CsvRow(ld, ts))]

Log(r) ==
    /\ readers[r].pc = "log"
    /\ csv_file' = log_data_to_csv(csv_file, latest_data, readers[r].timestamp)
    /\ readers' = [readers EXCEPT ![r].pc = "emit", ![r].trace = Append(@, "log")]
    /\ UNCHANGED <<now, latest_data, history, system_status, emitted>>
    /\ OtherUnchanged

\* Line 488: emit_data(timestamp).
emit_data(r) ==
    Append(emitted, EmitPayload(latest_data, readers[r].timestamp, config.USE_MOCK, now, r))

Emit(r) ==
    /\ readers[r].pc = "emit"
    /\ emitted' = emit_data(r)
    /\ readers' = [readers EXCEPT ![r].pc = "status", ![r].trace = Append(@, "emit")]
    /\ UNCHANGED <<now, latest_data, history, system_status, csv_file>>
    /\ OtherUnchanged

\* Line 489: update_system_status("mock" if config.USE_MOCK else "device").
Status(r) ==
    /\ readers[r].pc = "status"
    /\ system_status' = update_system_status(system_status,
                            IF config.USE_MOCK THEN "mock" ELSE "device", FALSE, now)
    /\ readers' = [readers EXCEPT ![r].pc = "sched", ![r].trace = Append(@, "status")]
    /\ UNCHANGED <<now, latest_data, history, csv_file, emitted>>
    /\ OtherUnchanged

\* Lines 494-505: the next deadline; then the 10 ms sleep and the next poll.
NextDeadline_Drift(next, t) == next + Interval
NextDeadline_Rebase(next, t) == t + Interval
NextDeadline(next, t) ==
    IF next + Interval <= t THEN t + Interval ELSE next + Interval

Sched(r) ==
    /\ readers[r].pc = "sched"
    /\ readers' = [readers EXCEPT
          ![r].next_update_time = NextDeadline(readers[r].next_update_time, now),
          ![r].ticks = @ + 1,
          ![r].short = @ /\ now - readers[r].timestamp < Interval,
          ![r].on_time = @ /\ now < readers[r].next_update_time + Interval,
          ![r].pc = "poll"]
    /\ UNCHANGED now /\ StoreUnchanged /\ OtherUnchanged

\* Lines 510-519: an exception that reaches the handler of the loop, raised
\* by a statement of the tick that no inner try covers: the print of line 462
\* (pc "read_open") or update_history (pc "hist").  The handler counts it in
\* the counter of the failed reads, sleeps 0.1 s (no time at the resolution
\* of the model) and leaves the loop, running still true, if the counter has
\* reached max_failures; otherwise the loop polls again with the deadline
\* unchanged.
ErrorPcs == {"read_open", "hist"}
LoopError(r) ==
    LET rd == readers[r]
        n == rd.consecutive_failures + 1
    IN  /\ rd.pc \in ErrorPcs
        /\ rd.loop_errors < MaxLoopErrors
        /\ readers' = IF n >= max_failures
                      THEN [readers EXCEPT ![r] =
                              [Exited(rd) EXCEPT !.consecutive_failures = n,
                                                 !.failed_reads = rd.failed_reads,
                                                 !.loop_errors = rd.loop_errors + 1,
                                                 !.threshold_hits = rd.threshold_hits + 1]]
                      ELSE [readers EXCEPT ![r].consecutive_failures = n,
                                           ![r].loop_errors = rd.loop_errors + 1,
                                           ![r].pc = "poll"]
        /\ UNCHANGED now /\ StoreUnchanged /\ OtherUnchanged

\* One step of the thread of reader r, stop() and long runs apart.
ReaderStep(r) ==
    \/ RunReaderStart(r) \/ Poll(r) \/ GenStep(r)
    \/ ReadOpenOk(r) \/ ReadOpenFail(r) \/ ReadSleepDone(r)
    \/ ReadBlock(r) \/ ReadSerialError(r)
    \/ ParseStep(r) \/ ParseEnd(r) \/ AfterRead(r)
    \/ Hist(r) \/ Log(r) \/ Emit(r) \/ Status(r) \/ Sched(r)

\* The steps that need stop() to have been called.
StoppedStep(r) == LoopExit(r) \/ ReadNoConnection(r)

\* The steps of a tick that finds the connection of an earlier tick, or that
\* sits out the whole read window: they come later than MaxTime.
LateStep(r) == ReadConnected(r) \/ ReadTimeout(r)

\* A thread waits when it can only go on after time has passed or data has
\* arrived: between two polls, in a sleep, in the read window.
ReaderWaits(r) ==
    \/ readers[r].pc \in {"none", "done", "read_sleep", "read_wait"}
    \/ readers[r].pc = "poll" /\ readers[r].running
                              /\ now < readers[r].next_update_time
CallerWaits == caller.pc \in {"idle", "sr_sleep", "sr_wait", "run_wait"}

\* Time passes while every thread waits: a step that does not wait takes no
\* time at the resolution of the model.  Time 0 is the moment of the first
\* call.
Advance(limit) ==
    /\ now < limit
    /\ caller.ncalls > 0
    /\ \A r \in Readers : ReaderWaits(r)
    /\ CallerWaits
    /\ now' = now + 1
    /\ UNCHANGED <<config, latest_data, history, system_status, csv_file, emitted,
                   reader_instance, readers, caller, appended>>

\* Time passes although a thread could go on: the 10 ms sleep of line 505
\* (or the scheduler) lets a poll come later than the deadline, and
\* log_data_to_csv takes time to write the file.
Elapse(limit) ==
    /\ now < limit
    /\ caller.ncalls > 0
    /\ \A r \in Readers : ReaderWaits(r) \/ readers[r].pc \in {"poll", "log"}
    /\ CallerWaits
    /\ now' = now + 1
    /\ UNCHANGED <<config, latest_data, history, system_status, csv_file, emitted,
                   reader_instance, readers, caller, appended>>

\* ------------------------------------------------------------ caller
ReaderUnchanged == UNCHANGED <<latest_data, history, system_status, emitted, appended>>

\* A DataReader object nobody refers to any more, or a slot never used.
Free(r) ==
    \/ readers[r].pc = "none"
    \/ readers[r].pc = "done" /\ reader_instance # <<r>>

TheInstance == reader_instance[1]

\* DataReader.stop, line 533: self.running = False.
StopFlag(r) == [readers EXCEPT ![r].running = FALSE]

\* DataReader.stop, lines 534-540: close and forget the connection; stop()
\* returns.
StopClose(r) == [readers EXCEPT ![r].serial_conn = None, ![r].stop_returned = TRUE]

\* DataReader.__init__ (lines 20-38) followed by DataReader.start (lines
\* 521-528): the object, then running = True and the new thread.
NewReader ==
    [NoReader EXCEPT !.pc = "init", !.running = TRUE]

\* Lines 27-38: open(..., "x") writes the header only if the file does not
\* exist.
InitCsv_Truncate(f) == [exists |-> TRUE, header |-> ReaderHeader, rows |-> <<>>]
InitCsv(f) ==
    IF f.exists THEN f ELSE [exists |-> TRUE, header |-> ReaderHeader, rows |-> <<>>]

\* The caller starts one of its operations.
CallStartReader(limit) ==
    /\ caller.pc = "idle"
    /\ caller.ncalls < limit
    /\ caller' = [caller EXCEPT !.pc = "sr_check", !.ret = "idle", !.chain = FALSE,
                                !.ncalls = @ + 1]
    /\ UNCHANGED <<now, config, csv_file, reader_instance, readers>>
    /\ ReaderUnchanged

CallStopReader(limit) ==
    /\ caller.pc = "idle"
    /\ caller.ncalls < limit
    /\ caller' = [caller EXCEPT !.pc = "sp_check", !.ret = "idle", !.chain = FALSE,
                                !.ncalls = @ + 1]
    /\ UNCHANGED <<now, config, csv_file, reader_instance, readers>>
    /\ ReaderUnchanged

\* start_reader, lines 550-552: an existing instance is stopped first.
StartReaderCheck ==
    /\ caller.pc = "sr_check"
    /\ IF reader_instance # None
       THEN /\ readers' = StopFlag(TheInstance)
            /\ caller' = [caller EXCEPT !.pc = "sr_stop"]
       ELSE /\ caller' = [caller EXCEPT !.pc = "sr_new"]
            /\ UNCHANGED readers
    /\ UNCHANGED <<now, config, csv_file, reader_instance>>
    /\ ReaderUnchanged

\* start_reader, lines 552-553: stop() returns, then time.sleep(1).
StartReaderStop ==
    /\ caller.pc = "sr_stop"
    /\ readers' = StopClose(TheInstance)
    /\ caller' = [caller EXCEPT !.pc = "sr_sleep", !.wake = now + StopSleep]
    /\ UNCHANGED <<now, config, csv_file, reader_instance>>
    /\ ReaderUnchanged

StartReaderSleep ==
    /\ caller.pc = "sr_sleep"
    /\ now >= caller.wake
    /\ caller' = [caller EXCEPT !.pc = "sr_new", !.wake = 0]
    /\ UNCHANGED <<now, config, csv_file, reader_instance, readers>>
    /\ ReaderUnchanged

\* start_reader, lines 555-559: the new DataReader and its thread, then
\* time.sleep(0.5).
StartReaderNew ==
    /\ caller.pc = "sr_new"
    /\ \E r \in Readers :
         /\ Free(r)
         /\ \A q \in Readers : Free(q) => r <= q
         /\ readers' = [readers EXCEPT ![r] = NewReader]
         /\ reader_instance' = <<r>>
    /\ csv_file' = InitCsv(csv_file)
    /\ caller' = [caller EXCEPT !.pc = "sr_wait", !.wake = now + StartSleep]
    /\ UNCHANGED <<now, config>>
    /\ ReaderUnchanged

\* start_reader, lines 559-561: the sleep ends and start_reader returns.
StartReaderReturn ==
    /\ caller.pc = "sr_wait"
    /\ now >= caller.wake
    /\ caller' = [caller EXCEPT !.pc = caller.ret, !.ret = "idle", !.wake = 0]
    /\ UNCHANGED <<now, config, csv_file, reader_instance, readers>>
    /\ ReaderUnchanged

\* stop_reader, lines 566-567.
AfterStop == IF caller.chain THEN "sr_check" ELSE caller.ret

StopReaderCheck ==
    /\ caller.pc = "sp_check"
    /\ IF reader_instance # None
       THEN /\ readers' = StopFlag(TheInstance)
            /\ caller' = [caller EXCEPT !.pc = "sp_stop"]
       ELSE /\ caller' = [caller EXCEPT !.pc = AfterStop, !.chain = FALSE,
                                        !.ret = IF caller.chain THEN caller.ret ELSE "idle"]
            /\ UNCHANGED readers
    /\ UNCHANGED <<now, config, csv_file, reader_instance>>
    /\ ReaderUnchanged

\* stop_reader, lines 567-568: stop() returns, reader_instance = None, and
\* stop_reader returns.
StopReaderStop ==
    /\ caller.pc = "sp_stop"
    /\ readers' = StopClose(TheInstance)
    /\ reader_instance' = None
    /\ caller' = [caller EXCEPT !.pc = AfterStop, !.chain = FALSE,
                                !.ret = IF caller.chain THEN caller.ret ELSE "idle"]
    /\ UNCHANGED <<now, config, csv_file>>
    /\ ReaderUnchanged

\* ------------------------------------------------- routes.get_current_data
InUpdate(r) ==
    readers[r].pc \in {GenPcs[j] : j \in 1..Len(GenPcs)} \cup {"parse"}

\* latest_data as the update reader r is making will leave it.
PostOf(r) ==
    LET rd == readers[r]
    IN  IF rd.pc = "parse"
        THEN ParseFinish(ParseLines([data |-> latest_data, updated |-> rd.data_updated,
                                     raised |-> FALSE], rd.block)).data
        ELSE GenFrom(latest_data, rd.draw, GenIndex(rd.pc))

CallGetCurrentData ==
    /\ caller.pc = "idle"
    /\ caller.ncalls < MaxCalls
    /\ caller' = [caller EXCEPT !.pc = "gc_coords", !.ncalls = @ + 1,
                                !.cur = <<>>, !.cur_pre = <<>>, !.cur_post = <<>>]
    /\ UNCHANGED <<now, config, csv_file, reader_instance, readers>>
    /\ ReaderUnchanged

\* Line 16: get_decimal_coordinates().
GetCurrentCoords ==
    /\ caller.pc = "gc_coords"
    /\ caller' = [caller EXCEPT !.pc = "gc_copy",
                                !.coords = get_decimal_coordinates(latest_data)]
    /\ UNCHANGED <<now, config, csv_file, reader_instance, readers>>
    /\ ReaderUnchanged

\* Lines 18-24: the response; cur_pre and cur_post are latest_data before and
\* after the update that is being made at this moment, if there is one.
GetCurrentCopy ==
    /\ caller.pc = "gc_copy"
    /\ \E r \in Readers :
         /\ InUpdate(r) \/ \A q \in Readers : ~InUpdate(q)
         /\ caller' = [caller EXCEPT
               !.pc = "idle", !.coords = <<>>,
               !.cur = [data |-> latest_data,
                        lat_decimal |-> caller.coords[1],
                        lon_decimal |-> caller.coords[2],
                        source |-> IF config.USE_MOCK THEN "mock" ELSE "device"],
               !.cur_pre = IF InUpdate(r) THEN readers[r].tick_pre ELSE latest_data,
               !.cur_post = IF InUpdate(r) THEN PostOf(r) ELSE latest_data]
    /\ UNCHANGED <<now, config, csv_file, reader_instance, readers>>
    /\ ReaderUnchanged

\* ------------------------------------------------- run.py, debug_run.py
DelayedStartSeconds == 2     \* run.py:69  time.sleep(2)

\* run.py, main: setup_csv_file(), then delayed_start_reader sleeps 2 s and
\* calls start_reader.
CallRunMain ==
    /\ caller.pc = "idle"
    /\ caller.ncalls = 0
    /\ csv_file' = setup_csv_file(csv_file)
    /\ caller' = [caller EXCEPT !.pc = "run_wait", !.ncalls = 1,
                                !.wake = now + DelayedStartSeconds * UnitsPerSecond]
    /\ UNCHANGED <<now, config, reader_instance, readers>>
    /\ ReaderUnchanged

RunStartReader ==
    /\ caller.pc = "run_wait"
    /\ now >= caller.wake
    /\ caller' = [caller EXCEPT !.pc = "sr_check", !.ret = "idle", !.chain = FALSE,
                                !.wake = 0]
    /\ UNCHANGED <<now, config, csv_file, reader_instance, readers>>
    /\ ReaderUnchanged

\* debug_run.py, main: start_reader(socketio) first, then the test for the
\* file.
CallDebugMain ==
    /\ caller.pc = "idle"
    /\ caller.ncalls = 0
    /\ caller' = [caller EXCEPT !.pc = "sr_check", !.ret = "debug_csv", !.chain = FALSE,
                                !.ncalls = 1]
    /\ UNCHANGED <<now, config, csv_file, reader_instance, readers>>
    /\ ReaderUnchanged

DebugCsv ==
    /\ caller.pc = "debug_csv"
    /\ csv_file' = debug_csv_file(csv_file)
    /\ caller' = [caller EXCEPT !.pc = "idle"]
    /\ UNCHANGED <<now, config, reader_instance, readers>>
    /\ ReaderUnchanged

\* --------------------------------------------------- routes.update_config
AVAILABLE_BAUD_RATES == {9600, 19200, 38400, 57600, 115200}

\* The JSON bodies of the requests: a key is <<>> when absent, <<value>>
\* when present.
Has(x) == x # <<>>
UseMockInputs == {<<>>, <<TRUE>>, <<FALSE>>}
PortInputs == {<<>>, << <<" ", "c", "o", "m", "3">> >>,
               << <<"/", "d", "e", "v", "/", "t", "t", "y", "S", "0">> >>,
               << <<"t", "t", "y">> >>}
BaudInputs == {<<>>, <<Num(115200)>>, <<Num(1200)>>, <<Str("fast")>>}
TimeoutInputs == {<<>>, <<Num(5)>>, <<Num(0)>>, <<Num(11)>>, <<Str("nan")>>}
Requests == [use_mock : UseMockInputs, serial_port : PortInputs,
             baud_rate : BaudInputs, timeout : TimeoutInputs]

\* The requests that only switch the mode.
ModeRequests ==
    {d \in Requests : d.serial_port = <<>> /\ d.baud_rate = <<>> /\ d.timeout = <<>>}

CallerOnly == UNCHANGED <<now, config, csv_file, reader_instance, readers>> /\ ReaderUnchanged
ConfigOnly == UNCHANGED <<now, csv_file, reader_instance, readers>> /\ ReaderUnchanged

\* Lines 50-53: a request arrives.  cfg_before and restarted record the
\* configuration when it arrived and whether it has called stop_reader.
CallUpdateConfig(requests, limit) ==
    /\ caller.pc = "idle"
    /\ caller.ncalls < limit
    /\ \E data \in requests :
         caller' = [caller EXCEPT !.pc = "uc_mock", !.req = data, !.ncalls = @ + 1,
                                  !.resp = "none", !.cfg_before = config,
                                  !.restarted = FALSE, !.msgs = FALSE]
    /\ CallerOnly

\* stop_reader(); start_reader(socketio), then on to the position next.
Restart(next) ==
    [caller EXCEPT !.pc = "sp_check", !.chain = TRUE, !.ret = next,
                   !.restarted = TRUE, !.msgs = TRUE]

\* Lines 56-69.
UcMock ==
    /\ caller.pc = "uc_mock"
    /\ IF Has(caller.req.use_mock)
       THEN /\ config' = [config EXCEPT !.USE_MOCK = caller.req.use_mock[1]]
            /\ caller' = Restart("uc_port")
       ELSE /\ caller' = [caller EXCEPT !.pc = "uc_port"]
            /\ UNCHANGED config
    /\ ConfigOnly

ValidPort(new_port) ==
    startswith(new_port, <<"C", "O", "M">>) \/ startswith(new_port, <<"/", "d", "e", "v", "/">>)

Reply(r) == [caller EXCEPT !.pc = "uc_done", !.resp = r]

\* Lines 72-94.
UcPort ==
    /\ caller.pc = "uc_port"
    /\ IF ~Has(caller.req.serial_port)
       THEN caller' = [caller EXCEPT !.pc = "uc_baud"] /\ UNCHANGED config
       ELSE LET new_port == upper(strip(caller.req.serial_port[1]))
            IN  IF ~ValidPort(new_port)
                THEN caller' = Reply("error_port") /\ UNCHANGED config
                ELSE /\ config' = [config EXCEPT !.SERIAL_PORT = new_port]
                     /\ caller' = IF ~config.USE_MOCK THEN Restart("uc_baud")
                                  ELSE [caller EXCEPT !.pc = "uc_baud", !.msgs = TRUE]
    /\ ConfigOnly

\* Lines 97-119.  int() of something that is no number raises ValueError,
\* which nothing catches: the request ends with an exception.
ValidBaud(new_baud) == new_baud \in AVAILABLE_BAUD_RATES

UcBaud ==
    /\ caller.pc = "uc_baud"
    /\ IF ~Has(caller.req.baud_rate)
       THEN caller' = [caller EXCEPT !.pc = "uc_timeout"] /\ UNCHANGED config
       ELSE LET new_baud == py_int(caller.req.baud_rate[1])
            IN  IF ~new_baud.ok
                THEN caller' = Reply("exception") /\ UNCHANGED config
                ELSE IF ~ValidBaud(new_baud.v)
                THEN caller' = Reply("error_baud") /\ UNCHANGED config
                ELSE /\ config' = [config EXCEPT !.BAUD_RATE = new_baud.v]
                     /\ caller' = IF ~config.USE_MOCK THEN Restart("uc_timeout")
                                  ELSE [caller EXCEPT !.pc = "uc_timeout", !.msgs = TRUE]
    /\ ConfigOnly

\* Line 126: new_timeout <= 0 or new_timeout > 10.
InvalidTimeout(new_timeout) == FloatLe(new_timeout, 0) \/ FloatGt(new_timeout, TimeoutMax)

\* Lines 122-142.
UcTimeout ==
    /\ caller.pc = "uc_timeout"
    /\ IF ~Has(caller.req.timeout)
       THEN /\ caller' = Reply(IF caller.msgs THEN "success" ELSE "error_empty")
            /\ UNCHANGED config
       ELSE LET new_timeout == py_float(caller.req.timeout[1])
            IN  IF ~new_timeout.ok
                THEN caller' = Reply("exception") /\ UNCHANGED config
                ELSE IF InvalidTimeout(new_timeout.v)
                THEN caller' = Reply("error_timeout") /\ UNCHANGED config
                ELSE /\ config' = [config EXCEPT !.TIMEOUT = new_timeout.v]
                     /\ caller' = Reply("success")
    /\ ConfigOnly

\* The response is sent.
UcReturn ==
    /\ caller.pc = "uc_done"
    /\ caller' = [caller EXCEPT !.pc = "idle", !.req = <<>>]
    /\ CallerOnly

\* --------------------------------------------------------- specifications
StartReaderSteps ==
    \/ StartReaderCheck \/ StartReaderStop \/ StartReaderSleep \/ StartReaderNew
    \/ StartReaderReturn

UpdateConfigSteps == UcMock \/ UcPort \/ UcBaud \/ UcTimeout \/ UcReturn

CallerStep ==
    \/ CallStartReader(MaxCalls) \/ CallStopReader(MaxCalls) \/ CallGetCurrentData
    \/ CallUpdateConfig(ModeRequests, MaxCalls)
    \/ StartReaderSteps
    \/ StopReaderCheck \/ StopReaderStop
    \/ GetCurrentCoords \/ GetCurrentCopy
    \/ UpdateConfigSteps

\* The whole program: any calls, every reader thread, time up to MaxTime.
Next ==
    \/ CallerStep
    \/ (\E r \in Readers : ReaderStep(r) \/ StoppedStep(r))
    \/ Advance(MaxTime)
Spec == Init /\ [][Next]_vars

\* One start_reader at startup (run.py, debug_run.py) and the thread of that
\* reader in device mode, long enough for the fallback to synthetic data and
\* for a read window that ends with nothing.
NextTick ==
    \/ CallStartReader(1) \/ StartReaderCheck \/ StartReaderNew \/ StartReaderReturn
    \/ (\E r \in Readers : ReaderStep(r) \/ LateStep(r))
    \/ Advance(MaxTickTime)
SpecTick == Init /\ [][NextTick]_vars

\* The same reader with exceptions that reach the handler of the loop.
NextError ==
    \/ CallStartReader(1) \/ StartReaderCheck \/ StartReaderNew \/ StartReaderReturn
    \/ (\E r \in Readers : \/ ReaderStep(r) \/ ReadConnected(r) \/ LoopError(r)
                           \/ ReadOtherError(r))
    \/ Advance(MaxErrorTime)
SpecError == Init /\ [][NextError]_vars

\* Stopping: the start_reader of startup, then a stop_reader at any moment,
\* in device mode, with every step of the reader thread, exceptions in the
\* loop included.  Time passes freely until MaxStopTime, and after it as
\* long as a stopped thread sits in a sleep or in a read window that has not
\* ended.  Every thread and the clock are scheduled fairly.
ThreadStep(r) == ReaderStep(r) \/ StoppedStep(r) \/ LateStep(r) \/ LoopError(r)

CallSteps ==
    \/ StartReaderCheck \/ StartReaderNew \/ StartReaderReturn
    \/ StopReaderCheck \/ StopReaderStop

AdvanceStop ==
    /\ \/ now < MaxStopTime
       \/ \E r \in Readers :
             /\ ~readers[r].running
             /\ \/ readers[r].pc = "read_sleep" /\ now < readers[r].wake
                \/ readers[r].pc = "read_wait" /\ InWindow(r)
    /\ \A r \in Readers : ReaderWaits(r)
    /\ CallerWaits
    /\ now' = now + 1
    /\ UNCHANGED <<config, latest_data, history, system_status, csv_file, emitted,
                   reader_instance, readers, caller, appended>>

NextStop ==
    \/ CallStartReader(1) \/ CallStopReader(MaxCalls)
    \/ CallSteps
    \/ (\E r \in Readers : ThreadStep(r))
    \/ AdvanceStop
SpecStop ==
    /\ Init /\ [][NextStop]_vars
    /\ \A r \in Readers : WF_vars(ThreadStep(r))
    /\ WF_vars(AdvanceStop)
    /\ WF_vars(CallSteps)

\* One reader in mock mode whose polls may come late and whose ticks take
\* time.
InitDrift ==
    /\ now = 0
    /\ config = [USE_MOCK |-> TRUE, SERIAL_PORT |-> COM7, BAUD_RATE |-> 9600,
                 TIMEOUT |-> Num(1)]
    /\ latest_data = InitialLatestData
    /\ history = EmptyHistory
    /\ system_status = [last_update |-> 0, data_source |-> "mock",
                        connection_status |-> "connected", error_count |-> 0]
    /\ csv_file = NoFile
    /\ emitted = <<>>
    /\ reader_instance = None
    /\ readers = [r \in Readers |-> NoReader]
    /\ caller = NoCaller
    /\ appended = EmptyHistory

NextDrift ==
    \/ CallStartReader(1) \/ StartReaderCheck \/ StartReaderNew \/ StartReaderReturn
    \/ (\E r \in Readers :
           \/ RunReaderStart(r) \/ Poll(r) \/ GenStep(r)
           \/ Hist(r) \/ Log(r) \/ Emit(r) \/ Status(r) \/ Sched(r))
    \/ Elapse(MaxDriftTime)
SpecDrift == InitDrift /\ [][NextDrift]_vars

\* Reconfiguration: every request body, with the reader threads running.
NextConfig ==
    \/ CallUpdateConfig(Requests, MaxConfigCalls)
    \/ UpdateConfigSteps
    \/ StartReaderCheck \/ StartReaderNew \/ StartReaderReturn
    \/ StopReaderCheck \/ StopReaderStop
    \/ (\E r \in Readers : ReaderStep(r) \/ StoppedStep(r))
    \/ Advance(MaxTime)
SpecConfig == Init /\ [][NextConfig]_vars

\* The log file across process starts: the process finds no file or the file
\* an earlier process left, starts through run.py or debug_run.py, and the
\* reader is restarted while it runs.
OldRow == CsvRow(InitialLatestData, 0)
PriorFiles == {NoFile, [exists |-> TRUE, header |-> ReaderHeader, rows |-> <<OldRow>>]}

InitLog ==
    /\ now = 0
    /\ config = [USE_MOCK |-> FALSE, SERIAL_PORT |-> COM7, BAUD_RATE |-> 9600,
                 TIMEOUT |-> Num(1)]
    /\ latest_data = InitialLatestData
    /\ history = EmptyHistory
    /\ system_status = [last_update |-> 0, data_source |-> "mock",
                        connection_status |-> "connected", error_count |-> 0]
    /\ csv_file \in PriorFiles
    /\ emitted = <<>>
    /\ reader_instance = None
    /\ readers = [r \in Readers |-> NoReader]
    /\ caller = NoCaller
    /\ appended = EmptyHistory

NextLog ==
    \/ CallRunMain \/ RunStartReader \/ CallDebugMain \/ DebugCsv
    \/ CallStartReader(MaxCalls) \/ StartReaderSteps
    \/ CallUpdateConfig(ModeRequests, MaxCalls) \/ UpdateConfigSteps
    \/ StopReaderCheck \/ StopReaderStop
    \/ (\E r \in Readers : ReaderStep(r) \/ StoppedStep(r))
    \/ Advance(MaxTime)
SpecLog == InitLog /\ [][NextLog]_vars

\* A long run of successful device ticks, each in one step (lines 464-491
\* with a block in the buffer at once): decode, history, log, broadcast,
\* status; the next tick is one interval later.
SuccessfulTick ==
    LET n == Len(appended["time"])
    IN  /\ n < MaxAppends
        /\ \E b \in (IF n < MaxVaried THEN DeviceBlocks ELSE {FixBlock}) :
             LET res == parse_telemetry_block(latest_data, b)
             IN  /\ res.updated
                 /\ latest_data' = res.data
                 /\ history' = update_history(history, res.data, now)
                 /\ appended' = Recorded(appended, res.data, now)
                 /\ csv_file' = log_data_to_csv(csv_file, res.data, now)
                 /\ emitted' = Append(emitted,
                                  EmitPayload(res.data, now, config.USE_MOCK, now, 1))
        /\ system_status' = update_system_status(system_status,
                                IF config.USE_MOCK THEN "mock" ELSE "device", FALSE, now)
        /\ now' = now + Interval
        /\ UNCHANGED <<config, reader_instance, readers, caller>>

NextHist == SuccessfulTick
SpecHist == Init /\ [][NextHist]_vars

\* Lines 308-335 of read_serial_data as a function of the lines of the
\* buffer.  <<"End">> is the line of 26 "=" signs.  The search runs over the
\* lines up to the first end marker; every line that starts with "GPS:"
\* overwrites start_idx.  Index 0 stands for Python's -1.
IsStartLine(line) == line[1] \in {"GPS", "GPS_NOFIX", "GPS_NOMATCH"}
IsEndLine(line) == line = <<"End">>
EndIdx(lines) ==
    IF \E i \in 1..Len(lines) : IsEndLine(lines[i])
    THEN CHOOSE i \in 1..Len(lines) :
            IsEndLine(lines[i]) /\ \A j \in 1..(i - 1) : ~IsEndLine(lines[j])
    ELSE 0
StartIdx(lines) ==
    LET scanned == IF EndIdx(lines) = 0 THEN Len(lines) ELSE EndIdx(lines) - 1
        starts == {i \in 1..scanned : IsStartLine(lines[i])}
    IN  IF starts = {} THEN 0 ELSE CHOOSE i \in starts : \A j \in starts : j <= i
Frame(lines) ==
    LET start_idx == StartIdx(lines)
        end_idx == EndIdx(lines)
    IN  IF start_idx # 0 /\ end_idx # 0
        THEN [found |-> TRUE, block |-> SubSeq(lines, start_idx, end_idx),
              rest |-> SubSeq(lines, end_idx + 1, Len(lines))]
        ELSE [found |-> FALSE, block |-> <<>>, rest |-> lines]

\* The number of characters of a line: "GPS: 3324.0, 11156.0 (Alt: 400.0 m)",
\* "GPS: No Fix", "Pressure: 971.0 mbar", the 26 "=" signs; <<"Junk", n>> is
\* a line of n characters with no marker and no key in it.
LineLen(line) ==
    CASE line[1] = "GPS" -> 36
      [] line[1] = "GPS_NOFIX" -> 11
      [] line[1] = "Pressure" -> 20
      [] line[1] = "End" -> 26
      [] line[1] = "Junk" -> line[2]
      [] OTHER -> 12

\* len(self.data_buffer): every line of the list ends with a newline.
RECURSIVE Chars(_)
Chars(lines) ==
    IF lines = <<>> THEN 0 ELSE LineLen(Head(lines)) + 1 + Chars(Tail(lines))

\* data_buffer[-n:]: the last n characters.  The line the cut falls in
\* loses its beginning, and what is left of it is no marker and no key.
RECURSIVE LastChars(_, _)
LastChars(lines, n) ==
    IF Chars(lines) <= n THEN lines
    ELSE IF Chars(Tail(lines)) >= n THEN LastChars(Tail(lines), n)
    ELSE << <<"Junk", n - Chars(Tail(lines)) - 1>> >> \o Tail(lines)

\* Lines 337-339: the cap of the buffer.
CapBuffer_Keep(lines) == lines
CapBuffer(lines) ==
    IF Chars(lines) > BufferCap THEN LastChars(lines, BufferKeep) ELSE lines

\* The lines the device sends in SpecFrame and the chunks one read returns.
FrameLines == { <<"GPS", 3324, 11156, 400>>, <<"GPS_NOFIX">>, <<"Pressure", 971>>,
                <<"End">>, <<"Junk", 999>>, <<"Junk", 2100>> }
Chunks == UNION { [1..n -> FrameLines] : n \in 1..MaxChunkLines }

\* Lines 302-335: one pass of the read loop with data waiting: the chunk is
\* appended to the buffer, and a block, if one is found, is cut out and
\* decoded (the call returns); otherwise the buffer is capped.
ReadChunk(r, chunk) ==
    LET buf == readers[r].data_buffer \o chunk
        f == Frame(buf)
    IN  /\ Len(buf) <= MaxBufferLines
        /\ readers' = [readers EXCEPT ![r].data_buffer =
                                          IF f.found THEN f.rest ELSE CapBuffer(buf),
                                      ![r].framed = [before |-> buf, block |-> f.block]]
        /\ latest_data' = IF f.found THEN parse_telemetry_block(latest_data, f.block).data
                          ELSE latest_data
        /\ UNCHANGED <<now, config, history, system_status, csv_file, emitted,
                       reader_instance, caller, appended>>

NextFrame == \E c \in Chunks : ReadChunk(1, c)
SpecFrame == Init /\ [][NextFrame]_vars

\* parse_telemetry_block as a function of the store and the block.  A block
\* is what read_serial_data cuts out of the buffer: a GPS line, then up to
\* MaxBlockLines other lines.
GpsLines == { <<"GPS_NOFIX">>, <<"GPS", 3324, 11156, 400>>, <<"GPS", 0, 0, 400>>,
              <<"GPS", 3324, 11156, 0>>, <<"GPS_NOMATCH">> }
KeyLines == { <<"Sats", 4>>, <<"MS5611", 26>>, <<"Pressure", 971>>, <<"Pressure", 0>>,
              <<"Heating", "OFF">>, <<"BadNum">> }
ParseBlocks ==
    { <<g>> \o t : g \in GpsLines,
                   t \in UNION { [1..n -> KeyLines] : n \in 0..MaxBlockLines } }

\* The stores a block is decoded into: the initial one, and the ones an
\* earlier no-fix block, an earlier fix block and an earlier block whose fix
\* carries the altitude 0 leave.
ZeroAltBlock == << <<"GPS", 3324, 11156, 0>>, <<"Pressure", 969>> >>
PriorStores ==
    { InitialLatestData,
      parse_telemetry_block(InitialLatestData, NoFixBlock).data,
      parse_telemetry_block(InitialLatestData, FixBlock).data,
      parse_telemetry_block(InitialLatestData, ZeroAltBlock).data }

InitParse ==
    /\ now = 0
    /\ config = [USE_MOCK |-> FALSE, SERIAL_PORT |-> COM7, BAUD_RATE |-> 9600,
                 TIMEOUT |-> Num(1)]
    /\ latest_data \in PriorStores
    /\ history = EmptyHistory
    /\ system_status = [last_update |-> 0, data_source |-> "mock",
                        connection_status |-> "connected", error_count |-> 0]
    /\ csv_file = NoFile
    /\ emitted = <<>>
    /\ reader_instance = None
    /\ readers = [r \in Readers |-> NoReader]
    /\ caller = NoCaller
    /\ appended = EmptyHistory

DecodeBlock(r, b) ==
    LET res == parse_telemetry_block(latest_data, b)
    IN  /\ readers[r].decoded = <<>>
        /\ latest_data' = res.data
        /\ readers' = [readers EXCEPT ![r].decoded =
                          [block |-> b, pre |-> latest_data,
                           before |-> IF "alt_calculated" \in DOMAIN latest_data
                                      THEN <<latest_data["alt_calculated"]>> ELSE <<>>,
                           result |-> res.updated]]
        /\ UNCHANGED <<now, config, history, system_status, csv_file, emitted,
                       reader_instance, caller, appended>>

NextParse == \E b \in ParseBlocks : DecodeBlock(1, b)
SpecParse == InitParse /\ [][NextParse]_vars

\* The three outputs of one sample: a successful device tick in one step
\* whose block is a GPS line with a raw latitude and longitude (DDMM.MMMM),
\* then GET /api/current from a client that has received the event.
RawLats == {0, 3325, 8959}
RawLons == {0, 7730, 9959, 10000, 10001, 11155, 17959}
CoordBlocks == { << <<"GPS", la, lo, 400>> >> : la \in RawLats, lo \in RawLons }

CoordTick ==
    /\ Len(emitted) < MaxCoordTicks
    /\ \E b \in CoordBlocks :
         LET res == parse_telemetry_block(latest_data, b)
         IN  /\ res.updated
             /\ latest_data' = res.data
             /\ history' = update_history(history, res.data, now)
             /\ appended' = Recorded(appended, res.data, now)
             /\ csv_file' = log_data_to_csv(csv_file, res.data, now)
             /\ emitted' = Append(emitted,
                              EmitPayload(res.data, now, config.USE_MOCK, now, 1))
    /\ system_status' = update_system_status(system_status,
                            IF config.USE_MOCK THEN "mock" ELSE "device", FALSE, now)
    /\ now' = now + Interval
    /\ UNCHANGED <<config, reader_instance, readers, caller>>

CallCurrentAfterEvent == emitted # <<>> /\ CallGetCurrentData

NextCoords == CoordTick \/ CallCurrentAfterEvent \/ GetCurrentCoords \/ GetCurrentCopy
SpecCoords == Init /\ [][NextCoords]_vars

\* Successful ticks of every kind from the initial store, each in one step
\* (lines 464-491): a device tick decodes a block that changes something, a
\* mock or fallback tick generates synthetic data; then history, log,
\* broadcast, status.  PartialBlock has a GPS line that gps_pattern does not
\* match (a negative number, for instance) and a pressure line.
PartialBlock == << <<"GPS_NOMATCH">>, <<"Pressure", 971>> >>
AlignBlocks == DeviceBlocks \cup {PartialBlock}

Publish(ld) ==
    /\ latest_data' = ld
    /\ history' = update_history(history, ld, now)
    /\ appended' = Recorded(appended, ld, now)
    /\ csv_file' = log_data_to_csv(csv_file, ld, now)
    /\ emitted' = Append(emitted, EmitPayload(ld, now, config.USE_MOCK, now, 1))
    /\ system_status' = update_system_status(system_status,
                            IF config.USE_MOCK THEN "mock" ELSE "device", FALSE, now)
    /\ now' = now + Interval
    /\ UNCHANGED <<config, reader_instance, readers, caller>>

AlignDeviceTick ==
    /\ Len(emitted) < MaxAlignTicks
    /\ \E b \in AlignBlocks :
         LET res == parse_telemetry_block(latest_data, b)
         IN  res.updated /\ Publish(res.data)

AlignSyntheticTick ==
    /\ Len(emitted) < MaxAlignTicks
    /\ \E d \in MockDraws : Publish(generate_realistic_mock_data(latest_data, d))

NextAlign == AlignDeviceTick \/ AlignSyntheticTick
SpecAlign == Init /\ [][NextAlign]_vars

\* ------------------------------------------------------------ properties
\* A thread is in a tick from the poll that finds the deadline reached to the
\* computation of the next deadline.
InTick(r) == readers[r].pc \in LoopPcs \ {"poll"}

\* C1: at most one ingestion loop is active at any time: in no reachable
\* state are two run_reader threads both still executing.  Stated here for
\* the threads that are in the middle of a tick, which is less than the claim.
AtMostOneActiveLoop ==
    \A r, q \in Readers : InTick(r) /\ InTick(q) => r = q

\* The positions from which the next step of the loop writes latest_data,
\* history, the log or a broadcast.
WritingPcs == {GenPcs[j] : j \in 1..Len(GenPcs)} \cup {"parse", "hist", "log", "emit"}

StoreWritten ==
    \/ latest_data' # latest_data \/ history' # history
    \/ csv_file' # csv_file \/ emitted' # emitted

\* C2: once stop() has returned for a DataReader, its loop performs no
\* further write to latest_data or history, no further log append and no
\* further broadcast.
NoWriteAfterStopReturned ==
    [][\A r \in Readers :
         (/\ readers[r].stop_returned
          /\ readers[r].pc \in WritingPcs
          /\ readers'[r].pc # readers[r].pc \/ readers'[r].block # readers[r].block)
         => ~StoreWritten]_vars

\* C3: get_current_data never returns a torn sample: the data of a response
\* made while a tick updates latest_data is latest_data as it was before that
\* update or as it is after it.
NoTornSnapshot ==
    caller.cur # <<>> => caller.cur.data \in {caller.cur_pre, caller.cur_post}

\* The stages a tick has run so far: its trace without the error records of
\* read_serial_data.
RECURSIVE Stages(_)
Stages(t) ==
    IF t = <<>> THEN <<>>
    ELSE IF Head(t) = "status_error" THEN Stages(Tail(t))
    ELSE <<Head(t)>> \o Stages(Tail(t))

Pipeline == <<"history", "log", "emit", "status">>

\* latest_data is a sample of generate_realistic_mock_data.
Synthetic(ld) ==
    /\ ld["lat"] = 0 /\ ld["lon"] = 0 /\ ld["satellites"] = 0
    /\ <<ld["ms5611_temp"], ld["pressure"]>> \in MockDraws
    /\ ld["alt"] = calculate_altitude_from_pressure(ld["pressure"], ld["ms5611_temp"])
    /\ "alt_calculated" \in DOMAIN ld /\ ld["alt_calculated"]

FallbackSourceIsMock ==
    \A r \in Readers :
        readers[r].fallback /\ readers[r].pc \in {"status", "sched"}
            => /\ emitted[Len(emitted)].source = "mock"
               /\ readers[r].consecutive_failures = 0

\* C6 as amended: a tick whose source produced an update runs history
\* append, log append, broadcast and status update exactly once each in this
\* order, a tick whose source produced none runs none of them; the error
\* record read_serial_data makes in system_status when the port raises is not
\* one of the stages and comes before them.
PipelineGatedAndOrdered ==
    \A r \in Readers :
        LET rd == readers[r]
            n == Len(Stages(rd.trace))
        IN  /\ n <= Len(Pipeline)
            /\ Stages(rd.trace) = SubSeq(Pipeline, 1, n)
            /\ rd.pc = "log" => n = 1
            /\ rd.pc = "emit" => n = 2
            /\ rd.pc = "status" => n = 3
            /\ rd.pc = "sched" => n = IF rd.data_updated THEN Len(Pipeline) ELSE 0
            /\ rd.pc \in LoopPcs \ {"log", "emit", "status", "sched", "poll"} => n = 0
            /\ n > 0 => rd.data_updated
            /\ \A i \in 1..Len(rd.trace) :
                  rd.trace[i] = "status_error" => i = 1

\* A fallback tick whose read raised has ended: one error record, then the
\* four stages.
ErrorThenPipeline ==
    \E r \in Readers :
        /\ readers[r].pc = "sched"
        /\ readers[r].trace = <<"status_error">> \o Pipeline

\* C6 as stated: on every tick whose source produced an update the loop
\* performs history append, log append, broadcast and system-status update
\* exactly once in this order, on every other tick none of the four.
PipelineExactlyTheFour ==
    \A r \in Readers :
        readers[r].pc = "sched"
            => readers[r].trace = IF readers[r].data_updated THEN Pipeline ELSE <<>>

\* The last n elements of a sequence (all of them when it has fewer).
LastN(q, n) == IF Len(q) <= n THEN q ELSE SubSeq(q, Len(q) - n + 1, Len(q))

\* C7: no history channel ever holds more than HistoryMaxLen entries, and
\* after any number of appends a channel holds exactly the last HistoryMaxLen
\* values appended to it, oldest first; get_history returns just that.
HistoryBounded ==
    \A c \in Channels :
        /\ Len(history[c]) <= HistoryMaxLen
        /\ history[c] = LastN(appended[c], HistoryMaxLen)
        /\ appended[c] # <<>> => /\ c \in DOMAIN get_history(history)
                                 /\ get_history(history)[c] = LastN(appended[c], HistoryMaxLen)

\* Three appends more than the capacity have been made to every channel.
HistoryOverflowed ==
    /\ \A c \in Channels :
          Len(appended[c]) >= HistoryMaxLen + 3 /\ Len(history[c]) = HistoryMaxLen
    /\ history["time"][1] = appended["time"][Len(appended["time"]) - HistoryMaxLen + 1]
    /\ history["time"][1] # appended["time"][1]

\* The number of "emit" entries of a trace.
RECURSIVE Emits(_)
Emits(t) ==
    IF t = <<>> THEN 0 ELSE (IF Head(t) = "emit" THEN 1 ELSE 0) + Emits(Tail(t))

\* C8 as amended: a successful tick broadcasts exactly once and any other
\* tick never; a tick starts at or after its deadline, and the deadline the
\* loop sets for the next tick is at least one interval after the deadline of
\* this one and later than the moment it is set.
OneBroadcastPerScheduledTick ==
    [][\A r \in Readers :
         LET rd == readers[r]
             rn == readers'[r]
         IN  /\ rn.pc = "sched" => Emits(rn.trace) = IF rn.data_updated THEN 1 ELSE 0
             /\ InTick(r) => rd.timestamp >= rd.next_update_time
             /\ (rd.pc = "emit" /\ rn.pc = "status")
                   => /\ emitted' = Append(emitted, emitted'[Len(emitted')])
                      /\ emitted'[Len(emitted')].timestamp = rd.timestamp
                      /\ Emits(rd.trace) = 0
             /\ ~(rd.pc = "emit" /\ rn.pc = "status") /\ rd.pc \in LoopPcs /\ rn # rd
                   => emitted' = emitted
             /\ (rd.pc = "sched" /\ rn.pc = "poll")
                   => /\ rn.next_update_time >= rd.next_update_time + Interval
                      /\ rn.next_update_time > now]_vars

\* Two broadcasts of one loop less than an interval apart.
TwoBroadcastsWithinInterval ==
    \E i \in 1..Len(emitted) - 1 :
        /\ emitted[i].by = emitted[i + 1].by
        /\ emitted[i + 1].timestamp > emitted[i].timestamp
        /\ emitted[i + 1].at - emitted[i].at < Interval

\* C8 as stated: exactly one broadcast per successful tick, and any two
\* consecutive broadcasts are at least MOCK_UPDATE_INTERVAL apart.
BroadcastsOneIntervalApart ==
    /\ \A r \in Readers :
          readers[r].pc = "sched"
              => Emits(readers[r].trace) = IF readers[r].data_updated THEN 1 ELSE 0
    /\ \A i \in 1..Len(emitted) - 1 : emitted[i + 1].at - emitted[i].at >= Interval

\* The positions at which update_config has rejected the request.
Rejected == caller.pc = "uc_done" /\ caller.resp \in {"error_port", "error_baud", "error_timeout"}

\* C9: when update_config answers with an error for an invalid port, baud
\* rate or timeout, the configuration is what it was before the request and
\* the reader has been neither stopped nor restarted.
RejectedLeavesEverythingUntouched ==
    Rejected => config = caller.cfg_before /\ ~caller.restarted

\* C10: config.BAUD_RATE is always one of AVAILABLE_BAUD_RATES and
\* config.TIMEOUT always satisfies 0 < t <= TimeoutMax; a request whose baud
\* rate is outside the set is rejected and leaves BAUD_RATE unchanged.
ConfigurationValid ==
    /\ config.BAUD_RATE \in AVAILABLE_BAUD_RATES
    /\ FloatGt(config.TIMEOUT, 0) /\ FloatLe(config.TIMEOUT, TimeoutMax)
    /\ \A b \in BaudInputs :
          (/\ caller.pc = "uc_done" /\ caller.req.baud_rate = b /\ Has(b)
           /\ IsNum(b[1]) /\ b[1][2] \notin AVAILABLE_BAUD_RATES
           /\ caller.resp # "error_port")
          => caller.resp = "error_baud" /\ config.BAUD_RATE = caller.cfg_before.BAUD_RATE

\* C11: in device mode every accepted change of the port, the baud rate or
\* the read timeout makes update_config stop and restart the reader.
DeviceChangeRestarts ==
    (/\ caller.pc = "uc_done" /\ caller.resp = "success"
     /\ ~config.USE_MOCK
     /\ \/ config.SERIAL_PORT # caller.cfg_before.SERIAL_PORT
        \/ config.BAUD_RATE # caller.cfg_before.BAUD_RATE
        \/ IsNum(config.TIMEOUT) /\ config.TIMEOUT # caller.cfg_before.TIMEOUT)
    => caller.restarted

\* q is p with rows added at the end.
IsPrefix(p, q) == Len(p) <= Len(q) /\ SubSeq(q, 1, Len(p)) = p

\* C12: the log is append-only with a single header: a header row is written
\* only when the file is absent and only then, the file never exists without
\* one, and no step changes the header or changes, removes or truncates a row
\* already in the file.
LogAppendOnly ==
    [][/\ csv_file'.exists => csv_file'.header # <<>>
       /\ ~csv_file.exists /\ csv_file'.exists => csv_file'.rows = <<>>
       /\ csv_file.exists
            => /\ csv_file'.exists
               /\ csv_file'.header = csv_file.header
               /\ IsPrefix(csv_file.rows, csv_file'.rows)]_vars

\* A reader has been constructed on a file that had rows, and rows were
\* appended after that.
RestartedOnExistingLog ==
    /\ csv_file.header = ReaderHeader
    /\ Len(csv_file.rows) >= 2
    /\ csv_file.rows[1] = OldRow
    /\ \E r, q \in Readers : r # q /\ readers[r].pc # "none" /\ readers[q].pc # "none"

\* C13: on every startup path the header row of the log has the 20 columns
\* of the rows log_data_to_csv appends, in the same order.
HeaderMatchesRows ==
    csv_file.exists => csv_file.header = RowColumns

\* The last decoded block and the lines of it that follow its GPS line.
Decoded == readers[1].decoded
HasLine(b, k) == \E i \in 1..Len(b) : b[i][1] = k
NoFixDecoded ==
    /\ Decoded # <<>> /\ Decoded.result
    /\ Decoded.block[1] = <<"GPS_NOFIX">>
    /\ HasLine(Decoded.block, "Pressure") /\ HasLine(Decoded.block, "MS5611")
NoFixResult ==
    /\ latest_data["lat"] = 0 /\ latest_data["lon"] = 0
    /\ "alt_calculated" \in DOMAIN latest_data /\ latest_data["alt_calculated"]
    /\ latest_data["alt"] = calculate_altitude_from_pressure(
                                latest_data["pressure"], latest_data["ms5611_temp"])

GpsFixDecoding ==
    (/\ Decoded # <<>>
     /\ Decoded.block[1][1] = "GPS"
     /\ Decoded.block[1][2] # 0 /\ Decoded.block[1][4] # 0)
    => /\ latest_data["lat"] = Decoded.block[1][2]
       /\ latest_data["lon"] = Decoded.block[1][3]
       /\ latest_data["alt"] = Metres(Decoded.block[1][4])
       /\ "alt_calculated" \in DOMAIN latest_data /\ ~latest_data["alt_calculated"]

\* A fix was decoded into a store whose altitude was a calculated one.
FixDecodedOverCalculated ==
    /\ Decoded # <<>> /\ Decoded.result
    /\ Decoded.block[1] = <<"GPS", 3324, 11156, 400>>
    /\ Decoded.before = <<TRUE>>
    /\ latest_data["alt"] = Metres(400)

\* C16: every tick of the loop refreshes the system status, whether its read
\* succeeded or failed: when a tick ends, last_update is not older than the
\* start of that tick.
StatusRefreshedEveryTick ==
    \A r \in Readers :
        readers[r].pc = "sched" => system_status.last_update >= readers[r].timestamp

\* C17: loop-level errors stop the loop only once the failure threshold has
\* been reached twice: a thread that left the loop through the handler has
\* found the counter at the threshold at least two times.
FatalOnlyAfterSecondThreshold ==
    \A r \in Readers :
        readers[r].pc = "done" /\ readers[r].threshold_hits > 0
            => readers[r].threshold_hits >= 2

\* C19: a tick falls back to synthetic data only if its device read is the
\* fifth failed device read in a row since the last successful read or the
\* last fallback.
FallbackAfterFiveFailedReads ==
    \A r \in Readers :
        readers[r].fallback /\ readers[r].pc = "gen_gps"
            => readers[r].failed_reads = max_failures

\* The deadline of reader r is on the cadence its first deadline set.
Aligned(r) ==
    readers[r].next_update_time
        = readers[r].first_deadline + readers[r].ticks * Interval

\* C18 as amended: as long as every tick reaches the scheduling of lines
\* 494-505 less than one interval after its deadline (the delay of its start
\* plus its processing time is less than the interval), the deadline after
\* the k-th tick is the first deadline + k intervals.
AlignedWhileOnTime ==
    \A r \in Readers :
        readers[r].pc \in LoopPcs /\ readers[r].on_time => Aligned(r)

\* C18 as stated: the same as long as every tick's processing time is less
\* than the interval.
AlignedWhileShort ==
    \A r \in Readers :
        readers[r].pc \in LoopPcs /\ readers[r].short => Aligned(r)

\* Two ticks, one of them started after its deadline or busy for a while,
\* have kept the cadence.
LateTicksKeptCadence ==
    \E r \in Readers :
        /\ readers[r].pc = "poll" /\ readers[r].ticks >= 2 /\ readers[r].on_time
        /\ \E i \in 1..Len(emitted) :
              emitted[i].at > readers[r].first_deadline + (i - 1) * Interval

\* The first start-marker line of the buffer that has an end marker after
\* it, and the first end marker after that line (0 if there is none).
FirstStart(lines) ==
    LET starts == {i \in 1..Len(lines) :
                     /\ IsStartLine(lines[i])
                     /\ \E j \in (i + 1)..Len(lines) : IsEndLine(lines[j])}
    IN  IF starts = {} THEN 0 ELSE CHOOSE i \in starts : \A j \in starts : i <= j
NextEnd(lines, i) ==
    CHOOSE j \in (i + 1)..Len(lines) :
        IsEndLine(lines[j]) /\ \A k \in (i + 1)..(j - 1) : ~IsEndLine(lines[k])

\* C20: whenever the buffer holds a start-marker line and a later end-marker
\* line, the block cut out runs from the first start-marker line to the next
\* end-marker line after it, and the buffer afterwards is what followed that
\* end-marker line.
BlockFraming ==
    \A r \in Readers :
        LET fr == readers[r].framed
        IN  fr # <<>> /\ FirstStart(fr.before) # 0
            => LET i == FirstStart(fr.before)
                   j == NextEnd(fr.before, i)
               IN  /\ fr.block = SubSeq(fr.before, i, j)
                   /\ readers[r].data_buffer = SubSeq(fr.before, j + 1, Len(fr.before))

\* C21: if the buffer of a read comes to hold a complete block (a "GPS:"
\* line and an end-marker line after it), that pass of the read loop cuts a
\* block out and decodes it, whatever precedes the block in the buffer.
FramingProgress ==
    \A r \in Readers :
        LET fr == readers[r].framed
        IN  fr # <<>> /\ FirstStart(fr.before) # 0 => fr.block # <<>>

\* q is the end of p, the line the cut fell in apart.
IsCutOf(q, p) ==
    /\ q # <<>> /\ Len(q) <= Len(p)
    /\ Tail(q) = SubSeq(p, Len(p) - Len(q) + 2, Len(p))
    /\ q[1] = p[Len(p) - Len(q) + 1] \/ q[1][1] = "Junk"

\* C22 as amended: after a chunk from which no block was cut out, the buffer
\* holds at most BufferCap characters, and if it exceeded BufferCap it is cut
\* to exactly its last BufferKeep characters; after a chunk from which a
\* block was cut out the buffer is what followed the block, whatever its
\* length.
BufferCapped ==
    \A r \in Readers :
        LET fr == readers[r].framed
            buf == readers[r].data_buffer
        IN  fr # <<>> =>
              IF fr.block = <<>>
              THEN /\ Chars(buf) <= BufferCap
                   /\ Chars(fr.before) <= BufferCap => buf = fr.before
                   /\ Chars(fr.before) > BufferCap
                         => Chars(buf) = BufferKeep /\ IsCutOf(buf, fr.before)
              ELSE buf = Frame(fr.before).rest

\* C22 as stated: after every chunk the buffer holds at most BufferCap
\* characters.
BufferAtMostCap ==
    \A r \in Readers :
        readers[r].framed # <<>> => Chars(readers[r].data_buffer) <= BufferCap

\* A buffer of more than BufferCap characters with no complete block in it
\* has been cut.
BufferWasCut ==
    \E r \in Readers :
        /\ readers[r].framed # <<>> /\ readers[r].framed.block = <<>>
        /\ Chars(readers[r].framed.before) > BufferCap
        /\ Chars(readers[r].data_buffer) = BufferKeep

\* A line whose value converts; the lines of a block that are well formed.
WellFormed(line) == line[1] # "BadNum"
AssignsField(line) ==
    line[1] \in {"GPS_NOFIX", "GPS", "Sats", "MS5611", "Pressure", "Heating"}

\* C23: a bad line never aborts a block: the store after a block is the
\* store the well-formed lines of the block give, those before and those
\* after the bad line.
BadLineSkipped ==
    Decoded # <<>>
        => latest_data = parse_telemetry_block(
                             Decoded.pre, SelectSeq(Decoded.block, WellFormed)).data

\* C24: parse_telemetry_block returns true if and only if it updated a field
\* of the store: true when a line of the block assigned a field, a malformed
\* line in the block or not, and the store is unchanged whenever it returns
\* false.
ReturnsTrueIffUpdated ==
    Decoded # <<>>
        => /\ Decoded.result <=> \E i \in 1..Len(Decoded.block) :
                                    AssignsField(Decoded.block[i])
           /\ ~Decoded.result => latest_data = Decoded.pre

\* C25: the scheduling step of a tick leaves a deadline that is later than
\* the current time: the old deadline + interval if that is still ahead, and
\* the current time + interval if the tick overran it; a tick starts only
\* when its deadline is reached, so no tick follows another without time
\* passing.
OverrunRebased ==
    [][\A r \in Readers :
         LET rd == readers[r]
             rn == readers'[r]
         IN  /\ (rd.pc = "sched" /\ rn.pc = "poll")
                   => /\ rn.next_update_time > now
                      /\ rd.next_update_time + Interval <= now
                            => rn.next_update_time = now + Interval
                      /\ rd.next_update_time + Interval > now
                            => rn.next_update_time = rd.next_update_time + Interval
             /\ (rd.pc = "poll" /\ rn.pc \in LoopPcs \ {"poll"})
                   => now >= rd.next_update_time]_vars

\* A tick that overran its next deadline has been given a deadline one
\* interval after its end.
OverrunTickRescheduled ==
    \E r \in Readers :
        /\ readers[r].pc = "poll" /\ readers[r].ticks >= 1 /\ ~readers[r].on_time
        /\ readers[r].next_update_time = now + Interval

\* C26: the decimal longitude of a stored sample is the same in the
\* broadcast event, in the log row and in the answer of GET /api/current, and
\* it is negated exactly when the raw longitude exceeds 10000.
LongitudeSignSame ==
    caller.pc = "gc_copy" /\ emitted # <<>>
        => LET e == emitted[Len(emitted)]
               w == csv_file.rows[Len(csv_file.rows)]
               q == caller.coords[2]
               d == convert_gps_to_decimal(latest_data["lon"])
           IN  /\ e.lon_decimal = w.lon_decimal
               /\ e.lon_decimal = q
               /\ q = IF latest_data["lon"] > 10000 THEN -d ELSE d

\* C27: update_config accepts a serial_port that begins with "COM" and one
\* that begins with "/dev/", and stores the device path that was submitted.
BothPortSyntaxesAccepted ==
    (/\ caller.pc = "uc_done"
     /\ Has(caller.req.serial_port)
     /\ ValidPort(strip(caller.req.serial_port[1])))
    => /\ caller.resp # "error_port"
       /\ config.SERIAL_PORT = strip(caller.req.serial_port[1])

\* C28: a device open or read failure makes read_serial_data return False
\* with the connection closed and forgotten and the failure counted once in
\* system_status.error_count; the call after it opens the connection again.
TransportFailureTornDown ==
    [][\A r \in Readers :
         LET rd == readers[r]
             rn == readers'[r]
         IN  /\ (rd.pc \in {"read_open", "read_wait"} /\ rn.pc = "after_read")
                   => /\ ~rn.data_updated
                      /\ rn.serial_conn = None
                      /\ system_status'.error_count = system_status.error_count + 1
             /\ (rd.pc = "read_open" /\ rn.pc = "read_wait")
                   => rd.serial_conn = None /\ rn.serial_conn # None]_vars

\* C29: once stop() has set running to false, the loop of that reader
\* eventually exits, wherever the thread is at that moment.
StopEventuallyObserved ==
    \A r \in Readers :
        (readers[r].pc \in LoopPcs /\ ~readers[r].running) ~> (readers[r].pc = "done")

\* stop() has set running to false while the thread is inside a device read.
StoppedInsideRead ==
    \E r \in Readers :
        ~readers[r].running /\ readers[r].pc \in {"read_sleep", "read_wait"}

\* C30: a stop() issued while a tick is in flight does not change the outcome
\* of that tick: a device read that ends inside its window without a block
\* ends so on the connection it was reading from, never because the
\* connection has been taken away under it.
TickNotDisturbed ==
    [][\A r \in Readers :
          (/\ readers[r].pc = "read_wait"
           /\ InWindow(r)
           /\ readers'[r].pc = "after_read")
          => readers[r].serial_conn # None]_vars

\* C31: after a decoded block alt_calculated (read as the code reads it,
\* False when the key is absent) is true exactly when the stored alt is the
\* barometric value for the stored pressure and ms5611_temp, and false
\* exactly when the stored alt is the altitude of the block's GPS line, or
\* the altitude kept from before when that line was not parsed.
AltFlag(d) == IF "alt_calculated" \in DOMAIN d THEN d["alt_calculated"] ELSE FALSE
GpsAltitude(pre, block) ==
    IF Head(block)[1] = "GPS" THEN Metres(Head(block)[4]) ELSE pre["alt"]
AltitudeFlagAgrees ==
    (Decoded # <<>> /\ Decoded.result) =>
        /\ AltFlag(latest_data) <=>
               latest_data["alt"] = calculate_altitude_from_pressure(
                                       latest_data["pressure"], latest_data["ms5611_temp"])
        /\ ~AltFlag(latest_data) =>
               latest_data["alt"] = GpsAltitude(Decoded.pre, Decoded.block)

\* C32: every history channel that get_history returns has as many entries
\* as the "time" channel.
HistoryAligned ==
    \A c \in Channels :
        history[c] # <<>> => Len(history[c]) = Len(history["time"])

\* C33: once stop() has returned and the loop has exited, the reader holds
\* no device connection.
StoppedReaderHoldsNoConnection ==
    \A r \in Readers :
        (readers[r].stop_returned /\ readers[r].pc = "done")
            => readers[r].serial_conn = None

\* C34: a reader whose run_reader loop has exited, for whatever reason, has
\* its running flag false.
ExitedReaderNotRunning ==
    \A r \in Readers : readers[r].pc = "done" => ~readers[r].running

====
